---- MODULE Spec2Model ----
(***************************************************************************)
(* A model of lazy-exclusive: LazyExclusive<T> (src/src/lib.rs) and its    *)
(* lazily initialised native lock Lock (src/src/lock.rs).                  *)
(*                                                                         *)
(* One container is shared by a set of threads.  Every memory access of    *)
(* the code to the shared cells (StateCell, the data cell, the LockState   *)
(* tag and the native mutex) is one step of the model, so the reads and    *)
(* writes of concurrent calls interleave as plain (non-atomic) accesses    *)
(* do.                                                                     *)
(*                                                                         *)
(* The native mutex is a binary semaphore: pthread_mutex_lock suspends     *)
(* while it is held, pthread_mutex_unlock frees it whoever calls it (a     *)
(* Mut guard is Send, and tests::lock_test drops the guard on another      *)
(* thread than the one that locked).  A "thread" of the model is the       *)
(* logical owner of the calls and guards it makes.                         *)
(***************************************************************************)
EXTENDS Integers, FiniteSets, Sequences, TLC

\* ---------------------------------------------------------------- bounds
NumThreads == 2
MaxVal == 1
MaxGuards == 2

Threads == 1..NumThreads
Values == 0..MaxVal
NoVal == 0 - 1

VARIABLES
    useLocks,   \* cfg(feature = "use-locks")
    useStd,     \* cfg(feature = "std")
    posix,      \* cfg(not(target_os = "windows"))
    observe,    \* whether wrote and contended are recorded in this run
    state,      \* LazyExclusive.state : StateCell
    data,       \* LazyExclusive.data  : UnsafeCell<T>
    lockState,  \* the tag of Lock.0 : LockState
    native,     \* the native mutex stored in LockState::Initialized
    lost,       \* a native mutex was discarded without pthread_mutex_destroy
    op,         \* per thread: the call in progress
    pc,         \* per thread: the position inside that call
    guards,     \* per thread: the Mut guards it holds (alive, not yet dropping)
    wrote,      \* per thread: the value last written through its guards
    contended,  \* per thread: its wait() was called while another guard was alive
    swapped,    \* the value the last swap() stored, while no guard wrote since
    out,        \* the value into_inner() returned
    destroyed,  \* Drop for Lock has called pthread_mutex_destroy
    cl          \* the container clone() returned

cfg == <<useLocks, useStd, observe, posix>>
cell == <<state, data>>
lck == <<lockState, native, lost>>
ctl == <<op, pc>>
obs == <<wrote, contended, swapped>>
ext == <<out, destroyed, cl>>
vars == <<useLocks, useStd, observe, posix, state, data, lockState, native, lost,
          op, pc, guards, wrote, contended, swapped, out, destroyed, cl>>

States == {"Unlocked", "Locked", "Poisoned"}
LockStates == {"Uninitialized", "Initialized"}
Ops == {"idle", "get", "wait", "swap", "drop", "pdrop", "clone",
        "clone_get", "clone_drop", "clone_swap", "into_inner", "drop_container"}
Finished == {"some", "none", "panic", "done"}

\* LazyExclusive::new(v), as a value: the fields of a fresh container and
\* the guards its owner holds.
NewContainer(v) ==
    [made |-> TRUE, state |-> "Unlocked", data |-> v,
     lockState |-> "Uninitialized", native |-> "free", guards |-> 0]

\* No clone() has returned yet.
NoClone == [NewContainer(NoVal) EXCEPT !.made = FALSE]

TypeOK ==
    /\ useLocks \in BOOLEAN /\ useStd \in BOOLEAN /\ observe \in BOOLEAN
    /\ posix \in BOOLEAN /\ lost \in BOOLEAN /\ destroyed \in BOOLEAN
    /\ swapped \in Values \cup {NoVal} /\ out \in Values \cup {NoVal}
    /\ cl \in [made : BOOLEAN, state : States, data : Values \cup {NoVal},
               lockState : LockStates, native : {"free", "held"},
               guards : 0..MaxGuards]
    /\ state \in States /\ data \in Values
    /\ lockState \in LockStates /\ native \in {"free", "held"}
    /\ op \in [Threads -> Ops]
    /\ pc \in [Threads -> STRING]
    /\ guards \in [Threads -> 0..MaxGuards]
    /\ wrote \in [Threads -> Values \cup {NoVal}]
    /\ contended \in [Threads -> BOOLEAN]

\* ------------------------------------------------------------- helpers
Goto(t, o, p) ==
    /\ op' = [op EXCEPT ![t] = o]
    /\ pc' = [pc EXCEPT ![t] = p]

At(t, o, p) == op[t] = o /\ pc[t] = p

Idle(t) == At(t, "idle", "idle")

\* Some(Mut { source: self }): the caller now holds one more guard.
NewGuard(t) == guards' = [guards EXCEPT ![t] = @ + 1]

RECURSIVE SumGuards(_)
SumGuards(S) ==
    IF S = {} THEN 0
    ELSE LET t == CHOOSE x \in S : TRUE IN guards[t] + SumGuards(S \ {t})

TotalGuards == SumGuards(Threads)

\* -------------------------------------------------- inspection (pure)
get_state == state
is_unlocked == state = "Unlocked"
is_locked == state = "Locked"
is_poisoned == state = "Poisoned"

\* ---------------------------------------------------------- Lock (lock.rs)
\* Lock::lock / Lock::unlock, first step: the match on the LockState tag.
LockMatch(t) ==
    /\ op[t] \in {"get", "wait"} /\ pc[t] = "lock"
    /\ pc' = [pc EXCEPT ![t] = IF lockState = "Uninitialized"
                                THEN "lock_init" ELSE "lock_native"]
    /\ UNCHANGED <<cfg, ext, cell, lck, op, guards, obs>>

UnlockMatch(t) ==
    /\ op[t] \in {"drop", "pdrop"} /\ pc[t] = "unlock"
    /\ pc' = [pc EXCEPT ![t] = IF lockState = "Uninitialized"
                                THEN "unlock_init" ELSE "unlock_native"]
    /\ UNCHANGED <<cfg, ext, cell, lck, op, guards, obs>>

\* Lock::init: a fresh native mutex overwrites whatever Lock.0 held
\* (pthread_mutex_init with default attributes is taken to succeed).
LockInit(t) ==
    /\ pc[t] \in {"lock_init", "unlock_init"}
    /\ lockState' = "Initialized"
    /\ native' = "free"
    /\ lost' = (lost \/ (observe /\ posix /\ lockState = "Initialized"))
    /\ pc' = [pc EXCEPT ![t] = IF pc[t] = "lock_init"
                                THEN "lock_unwrap" ELSE "unlock_unwrap"]
    /\ UNCHANGED <<cfg, ext, cell, op, guards, obs>>

\* LockState::unwrap_initialized after init(): panics when the tag is
\* Uninitialized again (a reset() ran in between).
UnwrapInitialized(t) ==
    /\ pc[t] \in {"lock_unwrap", "unlock_unwrap"}
    /\ pc' = [pc EXCEPT ![t] =
                IF lockState = "Uninitialized" THEN "panic"
                ELSE IF pc[t] = "lock_unwrap" THEN "lock_native"
                ELSE "unlock_native"]
    /\ UNCHANGED <<cfg, ext, cell, lck, op, guards, obs>>
\* pthread_mutex_lock / AcquireSRWLockExclusive on the mutex the match
\* found: suspends the caller while the mutex is held.  get() then returns
\* Some(Mut), wait() goes on to its assert.
NativeLock(t) ==
    /\ pc[t] = "lock_native"
    /\ native = "free"
    /\ native' = "held"
    /\ IF op[t] = "get"
       THEN /\ pc' = [pc EXCEPT ![t] = "some"]
            /\ NewGuard(t)
       ELSE /\ pc' = [pc EXCEPT ![t] = "assert"]
            /\ UNCHANGED guards
    /\ UNCHANGED <<cfg, ext, cell, lockState, lost, op, obs>>
\* An unlock() that leaves the native mutex held.
NativeUnlock_NoRelease(t) ==
    /\ pc[t] = "unlock_native"
    /\ pc' = [pc EXCEPT ![t] = IF useStd /\ op[t] = "pdrop"
                                THEN "poison" ELSE "done"]
    /\ UNCHANGED <<cfg, ext, cell, lck, op, guards, obs>>

\* pthread_mutex_unlock / ReleaseSRWLockExclusive; Mut::drop then looks at
\* std::thread::panicking().
NativeUnlock(t) ==
    /\ pc[t] = "unlock_native"
    /\ native' = "free"
    /\ pc' = [pc EXCEPT ![t] = IF useStd /\ op[t] = "pdrop"
                                THEN "poison" ELSE "done"]
    /\ UNCHANGED <<cfg, ext, cell, lockState, lost, op, guards, obs>>

\* Lock::reset.  POSIX form: the tag returns to Uninitialized; drop_in_place
\* of the byte array does nothing to the mutex bytes and no
\* pthread_mutex_destroy is called, so an Initialized mutex is discarded
\* undestroyed.  Windows form: the arm `_ => ()` leaves Lock.0 as it is.
LockReset(t) ==
    /\ At(t, "swap", "reset")
    /\ lockState' = IF posix THEN "Uninitialized" ELSE lockState
    /\ lost' = (lost \/ (observe /\ posix /\ lockState = "Initialized"))
    /\ pc' = [pc EXCEPT ![t] = "done"]
    /\ UNCHANGED <<cfg, ext, cell, native, op, guards, obs>>
\* A get() that hands out a guard whatever the state cell holds.
GetRead_NoCheck(t) ==
    /\ Idle(t)
    /\ guards[t] < MaxGuards
    /\ Goto(t, "get", "set_locked")
    /\ UNCHANGED <<cfg, ext, cell, lck, guards, obs>>

\* A get() that looks at the state cell again before it writes Locked.
GetSetLocked_Recheck(t) ==
    /\ At(t, "get", "set_locked")
    /\ IF state = "Unlocked"
       THEN /\ state' = "Locked"
            /\ IF useLocks
               THEN /\ pc' = [pc EXCEPT ![t] = "lock"]
                    /\ UNCHANGED guards
               ELSE /\ pc' = [pc EXCEPT ![t] = "some"]
                    /\ NewGuard(t)
       ELSE /\ pc' = [pc EXCEPT ![t] = "none"]
            /\ UNCHANGED <<state, guards>>
    /\ UNCHANGED <<cfg, ext, data, lck, op, obs>>

\* --------------------------------------------------- LazyExclusive::get
\* match self.state.get(): the read of the state cell.
GetRead(t) ==
    /\ Idle(t)
    /\ guards[t] < MaxGuards
    /\ IF state = "Unlocked"
       THEN Goto(t, "get", "set_locked")
       ELSE Goto(t, "get", "none")
    /\ UNCHANGED <<cfg, ext, cell, lck, guards, obs>>

\* self.state.set(State::Locked), then self.lock.lock() under use-locks.
GetSetLocked(t) ==
    /\ At(t, "get", "set_locked")
    /\ state' = "Locked"
    /\ IF useLocks
       THEN /\ pc' = [pc EXCEPT ![t] = "lock"]
            /\ UNCHANGED guards
       ELSE /\ pc' = [pc EXCEPT ![t] = "some"]
            /\ NewGuard(t)
    /\ UNCHANGED <<cfg, ext, data, lck, op, obs>>

\* -------------------------------------------------- LazyExclusive::wait
WaitCall(t) ==
    /\ useLocks
    /\ Idle(t)
    /\ guards[t] < MaxGuards
    /\ Goto(t, "wait", "lock")
    /\ contended' = [contended EXCEPT ![t] =
                        observe /\ \E u \in Threads \ {t} : guards[u] > 0]
    /\ UNCHANGED <<cfg, ext, cell, lck, guards, wrote, swapped>>

\* assert_eq!(self.state.get(), State::Unlocked, "The data was poisoned")
WaitAssert(t) ==
    /\ At(t, "wait", "assert")
    /\ pc' = [pc EXCEPT ![t] = IF state = "Unlocked"
                                THEN "set_locked" ELSE "panic"]
    /\ UNCHANGED <<cfg, ext, cell, lck, op, guards, obs>>

\* self.state.set(State::Locked); Mut { source: self }
WaitSetLocked(t) ==
    /\ At(t, "wait", "set_locked")
    /\ state' = "Locked"
    /\ pc' = [pc EXCEPT ![t] = "some"]
    /\ NewGuard(t)
    /\ UNCHANGED <<cfg, ext, data, lck, op, obs>>
\* A swap() whose assert comes after the write of the value.
SwapAssert_WriteFirst(t) ==
    /\ Idle(t)
    /\ IF state = "Unlocked"
       THEN /\ Goto(t, "swap", "write_data")
            /\ UNCHANGED data
       ELSE /\ Goto(t, "swap", "panic")
            /\ data' \in Values
    /\ UNCHANGED <<cfg, ext, state, lck, guards, obs>>

\* -------------------------------------------------- LazyExclusive::swap
\* assert_eq!(self.state.get(), State::Unlocked)
SwapAssert(t) ==
    /\ Idle(t)
    /\ IF state = "Unlocked"
       THEN Goto(t, "swap", "write_data")
       ELSE Goto(t, "swap", "panic")
    /\ UNCHANGED <<cfg, ext, cell, lck, guards, obs>>

\* *t = new_value
SwapData(t, v) ==
    /\ At(t, "swap", "write_data")
    /\ data' = v
    /\ pc' = [pc EXCEPT ![t] = "set_unlocked"]
    /\ wrote' = [u \in Threads |-> NoVal]
    /\ swapped' = IF observe THEN v ELSE swapped
    /\ UNCHANGED <<cfg, ext, state, lck, op, guards, contended>>

\* self.state.set(State::Unlocked), then self.lock.reset() under use-locks.
SwapSetUnlocked(t) ==
    /\ At(t, "swap", "set_unlocked")
    /\ state' = "Unlocked"
    /\ pc' = [pc EXCEPT ![t] = IF useLocks THEN "reset" ELSE "done"]
    /\ UNCHANGED <<cfg, ext, data, lck, op, guards, obs>>

\* ------------------------------------------------------------ Mut guard
\* DerefMut: a write of the stored value through a guard.
DerefMutWrite(t, v) ==
    /\ Idle(t)
    /\ guards[t] > 0
    /\ data' = v
    /\ wrote' = [wrote EXCEPT ![t] = IF observe THEN v ELSE @]
    /\ swapped' = NoVal
    /\ UNCHANGED <<cfg, ext, state, lck, ctl, guards, contended>>

\* A drop whose poisoning does not depend on use-locks.
DropSetUnlocked_Poison(t, p) ==
    /\ Idle(t)
    /\ guards[t] > 0
    /\ guards' = [guards EXCEPT ![t] = @ - 1]
    /\ state' = IF p /\ useStd /\ ~useLocks THEN "Poisoned" ELSE "Unlocked"
    /\ Goto(t, IF p THEN "pdrop" ELSE "drop", IF useLocks THEN "unlock" ELSE "done")
    /\ swapped' = IF p THEN NoVal ELSE swapped
    /\ UNCHANGED <<cfg, ext, data, lck, wrote, contended>>

\* Drop for Mut, first statement: self.source.state.set(State::Unlocked).
\* p: the guard is dropped while its thread is panicking.
DropSetUnlocked(t, p) ==
    /\ Idle(t)
    /\ guards[t] > 0
    /\ guards' = [guards EXCEPT ![t] = @ - 1]
    /\ state' = "Unlocked"
    /\ Goto(t, IF p THEN "pdrop" ELSE "drop", IF useLocks THEN "unlock" ELSE "done")
    /\ swapped' = IF p THEN NoVal ELSE swapped
    /\ UNCHANGED <<cfg, ext, data, lck, wrote, contended>>

\* if std::thread::panicking() { self.source.state.set(State::Poisoned) }
DropSetPoisoned(t) ==
    /\ At(t, "pdrop", "poison")
    /\ state' = "Poisoned"
    /\ pc' = [pc EXCEPT ![t] = "done"]
    /\ UNCHANGED <<cfg, ext, data, lck, op, guards, obs>>

\* ------------------------------------------------------------ the caller
\* The call has returned, or it panicked and the panic was caught (or the
\* thread died and another one takes up its role): the thread goes on.
\* The guard a get()/wait() returned starts with no write made through it.
Return(t) ==
    /\ pc[t] \in Finished
    /\ Goto(t, "idle", "idle")
    /\ wrote' = [wrote EXCEPT ![t] = IF pc[t] = "some" THEN NoVal ELSE @]
    /\ contended' = [contended EXCEPT ![t] = FALSE]
    /\ UNCHANGED <<cfg, ext, cell, lck, guards, swapped>>

\* core::mem::forget(guard): the caller gives the guard up without running
\* Drop for Mut, so neither the state cell nor the native mutex is touched.
Forget(t) ==
    /\ Idle(t)
    /\ guards[t] > 0
    /\ guards' = [guards EXCEPT ![t] = @ - 1]
    /\ UNCHANGED <<cfg, ext, cell, lck, ctl, obs>>

\* A clone() that copies the value whatever the state cell holds.
Clone_NoCheck(t) ==
    /\ Idle(t)
    /\ ~cl.made
    /\ cl' = NewContainer(data)
    /\ Goto(t, "clone", "done")
    /\ UNCHANGED <<cfg, cell, lck, guards, obs, out, destroyed>>

\* ------------------------------------------- Clone for LazyExclusive<T>
\* match self.state.get(): Unlocked => Self::new(data.clone()), Locked and
\* Poisoned => panic!.  The model follows one clone.
Clone(t) ==
    /\ Idle(t)
    /\ ~cl.made
    /\ IF state = "Unlocked"
       THEN /\ cl' = NewContainer(data)
            /\ Goto(t, "clone", "done")
       ELSE /\ Goto(t, "clone", "panic")
            /\ UNCHANGED cl
    /\ UNCHANGED <<cfg, cell, lck, guards, obs, out, destroyed>>

\* The calls of the clone's owner on the clone, each one from call to
\* return: the clone is a container of its own, used by one thread.
\* get(): as GetRead, GetSetLocked and Lock::lock in a row.
CloneGet(t) ==
    /\ Idle(t)
    /\ cl.made
    /\ cl.guards < MaxGuards
    /\ IF cl.state = "Unlocked"
       THEN /\ useLocks /\ cl.lockState = "Initialized" => cl.native = "free"
            /\ cl' = [cl EXCEPT !.state = "Locked",
                                !.lockState = IF useLocks THEN "Initialized" ELSE @,
                                !.native = IF useLocks THEN "held" ELSE @,
                                !.guards = @ + 1]
            /\ Goto(t, "clone_get", "some")
       ELSE /\ Goto(t, "clone_get", "none")
            /\ UNCHANGED cl
    /\ UNCHANGED <<cfg, cell, lck, guards, obs, out, destroyed>>

\* DerefMut through a guard of the clone.
CloneWrite(t, v) ==
    /\ Idle(t)
    /\ cl.guards > 0
    /\ cl' = [cl EXCEPT !.data = v]
    /\ UNCHANGED <<cfg, cell, lck, ctl, guards, obs, out, destroyed>>

\* Drop for Mut on a guard of the clone (p: while panicking): as
\* DropSetUnlocked, Lock::unlock and DropSetPoisoned in a row.
CloneDrop(t, p) ==
    /\ Idle(t)
    /\ cl.guards > 0
    /\ cl' = [cl EXCEPT !.state = IF p /\ useLocks /\ useStd
                                  THEN "Poisoned" ELSE "Unlocked",
                        !.lockState = IF useLocks THEN "Initialized" ELSE @,
                        !.native = "free",
                        !.guards = @ - 1]
    /\ Goto(t, "clone_drop", "done")
    /\ UNCHANGED <<cfg, cell, lck, guards, obs, out, destroyed>>

\* swap() on the clone: as SwapAssert, SwapData, SwapSetUnlocked and
\* LockReset in a row.
CloneSwap(t, v) ==
    /\ Idle(t)
    /\ cl.made
    /\ IF cl.state = "Unlocked"
       THEN /\ cl' = [cl EXCEPT !.data = v,
                                !.lockState = IF useLocks /\ posix
                                              THEN "Uninitialized" ELSE @]
            /\ Goto(t, "clone_swap", "done")
       ELSE /\ Goto(t, "clone_swap", "panic")
            /\ UNCHANGED cl
    /\ UNCHANGED <<cfg, cell, lck, guards, obs, out, destroyed>>

\* An into_inner() that moves the value out whatever the state cell holds.
IntoInner_NoCheck(t) ==
    /\ Idle(t)
    /\ guards[t] = 0
    /\ out' = data
    /\ Goto(t, "into_inner", "returned")
    /\ destroyed' = (useLocks /\ posix /\ lockState = "Initialized")
    /\ UNCHANGED <<cfg, cell, lck, guards, obs, cl>>

\* ------------------------------------------- LazyExclusive::into_inner
\* into_inner(self) takes the container by value, so no guard borrows it.
\* Unlocked => self.data.into_inner(); Locked and Poisoned => panic!.  On
\* both paths the container is gone afterwards and its Lock field is
\* dropped (Drop for Lock).
IntoInner(t) ==
    /\ Idle(t)
    /\ guards[t] = 0
    /\ IF state = "Unlocked"
       THEN /\ out' = data
            /\ Goto(t, "into_inner", "returned")
       ELSE /\ UNCHANGED out
            /\ Goto(t, "into_inner", "failed")
    /\ destroyed' = (useLocks /\ posix /\ lockState = "Initialized")
    /\ UNCHANGED <<cfg, cell, lck, guards, obs, cl>>

\* The container goes out of scope.  Drop for Lock (not on Windows): an
\* Initialized mutex gets pthread_mutex_destroy.
DropContainer(t) ==
    /\ Idle(t)
    /\ guards[t] = 0
    /\ Goto(t, "drop_container", "dropped")
    /\ destroyed' = (useLocks /\ posix /\ lockState = "Initialized")
    /\ UNCHANGED <<cfg, cell, lck, guards, obs, out, cl>>

\* ------------------------------------------------------- specifications
InitContainer ==
    /\ state = "Unlocked"
    /\ data \in Values
    /\ lockState = "Uninitialized"
    /\ native = "free"
    /\ op = [t \in Threads |-> "idle"]
    /\ pc = [t \in Threads |-> "idle"]
    /\ guards = [t \in Threads |-> 0]
    /\ wrote = [t \in Threads |-> NoVal]
    /\ contended = [t \in Threads |-> FALSE]
    /\ lost = FALSE
    /\ swapped = NoVal
    /\ out = NoVal
    /\ destroyed = FALSE
    /\ cl = NoClone

LockSteps(t) ==
    \/ LockMatch(t)
    \/ UnlockMatch(t)
    \/ LockInit(t)
    \/ UnwrapInitialized(t)
    \/ NativeLock(t)
    \/ NativeUnlock(t)

GetSteps(t) ==
    \/ GetRead(t)
    \/ GetSetLocked(t)

WaitSteps(t) ==
    \/ WaitCall(t)
    \/ WaitAssert(t)
    \/ WaitSetLocked(t)

SwapSteps(t) ==
    \/ SwapAssert(t)
    \/ \E v \in Values : SwapData(t, v)
    \/ SwapSetUnlocked(t)
    \/ LockReset(t)

GuardSteps(t) ==
    \/ \E v \in Values : DerefMutWrite(t, v)
    \/ DropSetUnlocked(t, FALSE)
    \/ DropSetUnlocked(t, TRUE)
    \/ DropSetPoisoned(t)

\* The blocking-enabled configuration, any number of threads.
Init ==
    /\ useLocks = TRUE
    /\ useStd \in BOOLEAN
    /\ posix \in BOOLEAN
    /\ observe = FALSE
    /\ InitContainer

Next ==
    \E t \in Threads :
        \/ GetSteps(t)
        \/ WaitSteps(t)
        \/ SwapSteps(t)
        \/ GuardSteps(t)
        \/ LockSteps(t)
        \/ Return(t)

Spec == Init /\ [][Next]_vars

\* The blocking-enabled configuration when no guard is ever dropped during
\* a panic.
CalmGuardSteps(t) ==
    \/ \E v \in Values : DerefMutWrite(t, v)
    \/ DropSetUnlocked(t, FALSE)

NextCalm ==
    \E t \in Threads :
        \/ GetSteps(t)
        \/ WaitSteps(t)
        \/ SwapSteps(t)
        \/ CalmGuardSteps(t)
        \/ LockSteps(t)
        \/ Return(t)

SpecCalm == Init /\ [][NextCalm]_vars

\* One thread, either configuration: every call sequence a single thread can
\* issue on one container.
Roles == <<1, 2>>
ThreadA == Roles[1]
ThreadB == Roles[2]

InitSeq ==
    /\ useLocks \in BOOLEAN
    /\ useStd \in BOOLEAN
    /\ posix \in BOOLEAN
    /\ observe = TRUE
    /\ InitContainer

NextSeq ==
    \/ GetSteps(ThreadA)
    \/ WaitSteps(ThreadA)
    \/ SwapSteps(ThreadA)
    \/ GuardSteps(ThreadA)
    \/ LockSteps(ThreadA)
    \/ Return(ThreadA)

SpecSeq == InitSeq /\ [][NextSeq]_vars

\* The hand-off of tests::lock_test, any number of rounds: thread A acquires
\* with get(), thread B with wait(); both write through and drop (normally or
\* while panicking) the guards they hold.
InitHandoff ==
    /\ useLocks = TRUE
    /\ useStd \in BOOLEAN
    /\ posix \in BOOLEAN
    /\ observe = TRUE
    /\ InitContainer

NextHandoff ==
    \/ GetSteps(ThreadA)
    \/ WaitSteps(ThreadB)
    \/ \E t \in {ThreadA, ThreadB} :
          \/ GuardSteps(t)
          \/ LockSteps(t)
          \/ Return(t)

SpecHandoff == InitHandoff /\ [][NextHandoff]_vars

\* The owner of a container, either configuration: every call sequence of
\* one thread that may also leak a guard, clone the container and use the
\* clone, and in the end give the container up (into_inner or drop).
CloneSteps(t) ==
    \/ Clone(t)
    \/ CloneGet(t)
    \/ \E v \in Values : CloneWrite(t, v)
    \/ CloneDrop(t, FALSE)
    \/ CloneDrop(t, TRUE)
    \/ \E v \in Values : CloneSwap(t, v)

NextOwner ==
    \/ NextSeq
    \/ Forget(ThreadA)
    \/ CloneSteps(ThreadA)
    \/ IntoInner(ThreadA)
    \/ DropContainer(ThreadA)

SpecOwner == InitSeq /\ [][NextOwner]_vars

\* The configuration without the blocking primitive (no use-locks), any
\* number of threads: there is no Lock and no wait().  One of the threads
\* owns the clone.
InitNoLocks ==
    /\ useLocks = FALSE
    /\ useStd \in BOOLEAN
    /\ posix = TRUE
    /\ observe = FALSE
    /\ InitContainer

NoLocksSwapSteps(t) ==
    \/ SwapAssert(t)
    \/ \E v \in Values : SwapData(t, v)
    \/ SwapSetUnlocked(t)

NoLocksGuardSteps(t) ==
    \/ \E v \in Values : DerefMutWrite(t, v)
    \/ DropSetUnlocked(t, FALSE)
    \/ DropSetUnlocked(t, TRUE)

NextNoLocks ==
    \/ \E t \in Threads :
          \/ GetSteps(t)
          \/ NoLocksSwapSteps(t)
          \/ NoLocksGuardSteps(t)
          \/ Return(t)
    \/ CloneSteps(ThreadA)

SpecNoLocks == InitNoLocks /\ [][NextNoLocks]_vars

\* ================================================================ claims

\* ---------------------------------------------------------------------- C1
\* C1 (as claimed): with use-locks, under every interleaving of get(),
\* wait(), swap() and guard drops by two or more threads, at most one Mut
\* guard of the container is alive in any reachable state.
C1_AtMostOneGuard == TotalGuards <= 1

\* ---------------------------------------------------------------------- C2
\* C2: for every call sequence of a single thread (either configuration),
\* while a guard returned by get() is alive get_state() is Locked,
\* is_locked() is true and every further get() has returned None: no get()
\* is past its state check and no second guard exists.
C2_SingleOwnership ==
    /\ guards[ThreadA] <= 1
    /\ guards[ThreadA] = 1 =>
          /\ get_state = "Locked"
          /\ is_locked
          /\ op[ThreadA] = "get" => pc[ThreadA] \in {"some", "none"}

\* A guard is alive and a further get() has just returned None.
C2_Witness == guards[ThreadA] = 1 /\ At(ThreadA, "get", "none")

\* ---------------------------------------------------------------------- C3
\* C3 (as claimed): blocking hand-off.  When thread B's wait() was called
\* while thread A held the guard it got from get(), then at the return of
\* B's wait() A's guard is no longer alive, and the value B's guard reads is
\* the value last written through A's guard.
C3_Handoff ==
    (At(ThreadB, "wait", "some") /\ contended[ThreadB]) =>
        /\ guards[ThreadA] = 0
        /\ wrote[ThreadA] # NoVal => data = wrote[ThreadA]

\* ---------------------------------------------------------------------- C4
\* C4: release-then-reacquire, single thread, any number of rounds.  After
\* a guard is dropped normally the state is Unlocked (and the native mutex
\* free); a get() that found the state Unlocked is never suspended and never
\* fails, so it returns Some; and the guard it returns reads the value last
\* written through the previous guard.
C4_ReleaseReacquire ==
    /\ At(ThreadA, "drop", "done") =>
          /\ state = "Unlocked"
          /\ useLocks => native = "free"
    /\ (Idle(ThreadA) /\ guards[ThreadA] = 0 /\ state = "Unlocked" /\ useLocks) =>
          (lockState = "Uninitialized" \/ native = "free")
    /\ At(ThreadA, "get", "lock_native") => native = "free"
    /\ ~At(ThreadA, "get", "panic")
    /\ (At(ThreadA, "get", "some") /\ wrote[ThreadA] # NoVal) =>
          data = wrote[ThreadA]

\* With use-locks and std (where a drop during a panic would have poisoned
\* the container for good): a get() after a normal drop has returned the
\* guard, over the value the previous guard wrote.
C4_Witness ==
    /\ useLocks /\ useStd
    /\ At(ThreadA, "get", "some")
    /\ wrote[ThreadA] # NoVal /\ data = wrote[ThreadA]
    /\ state = "Locked"

\* ---------------------------------------------------------------------- C5
\* C5 (as claimed), for the calls of one thread with use-locks and std: a
\* guard dropped while its thread is panicking leaves the state Poisoned;
\* while the state is Poisoned every get() returns None, and every wait()
\* fails fatally: it returns no guard and is not suspended on a native mutex
\* that nothing will release.
C5_Poisoning ==
    (useLocks /\ useStd) =>
        /\ At(ThreadA, "pdrop", "done") => state = "Poisoned"
        /\ (state = "Poisoned" /\ op[ThreadA] = "get") => pc[ThreadA] = "none"
        /\ (state = "Poisoned" /\ op[ThreadA] = "wait") =>
              /\ pc[ThreadA] # "some"
              /\ ~(pc[ThreadA] = "lock_native" /\ native = "held")

\* ---------------------------------------------------------------------- C6
\* C6 (as claimed): a swap() called on a Poisoned container does not panic.
C6_SwapClearsPoison ==
    ~(At(ThreadA, "swap", "panic") /\ state = "Poisoned")

\* ---------------------------------------------------------------------- C7
\* C7: a swap() called while the state is Locked fails fatally, and the
\* failing call leaves the stored value, the ownership state and the
\* blocking primitive as they were.
C7_SwapWhileLockedFails ==
    [][\A t \in Threads :
          (Idle(t) /\ op'[t] = "swap" /\ state = "Locked") =>
              /\ pc'[t] = "panic"
              /\ UNCHANGED <<state, data, lockState, native>>]_vars

\* A swap() has failed while a guard is outstanding and the state Locked.
C7_Witness ==
    \E t \in Threads :
        /\ At(t, "swap", "panic")
        /\ state = "Locked"
        /\ TotalGuards > 0

\* ---------------------------------------------------------------------- C8
\* C8 (as claimed): with use-locks, under every interleaving, no get() call
\* is ever suspended inside Lock::lock(): whenever a get() reaches the native
\* lock call, the mutex is free.
C8_GetNeverSuspends ==
    \A t \in Threads : At(t, "get", "lock_native") => native = "free"

\* ---------------------------------------------------------------------- C9
\* C9 (as claimed), its safety part: when no guard is ever dropped during a
\* panic, every wait() call returns a guard, so no wait() call ends in a
\* fatal failure.
C9_WaitNeverFails ==
    \A t \in Threads : ~(op[t] = "wait" /\ pc[t] = "panic")

\* --------------------------------------------------------------------- C10
\* C10 (as claimed): with use-locks and std, while thread A's panicking drop
\* of its guard is under way (it has set Unlocked and has not yet moved on
\* from setting Poisoned), no wait() of another thread returns a guard.
C10_NoGuardOverPoisoned ==
    [][\A b \in Threads :
          (useStd /\ op[b] = "wait" /\ pc[b] # "some" /\ pc'[b] = "some") =>
              ~\E a \in Threads \ {b} : op[a] = "pdrop"]_vars

\* --------------------------------------------------------------------- C11
\* C11: into_inner() returns the stored value exactly when the state is
\* Unlocked, and fails fatally (returning nothing) when the state is Locked
\* or Poisoned; in particular new(v) followed by into_inner() returns v.
C11_IntoInner ==
    /\ At(ThreadA, "into_inner", "returned") =>
          /\ state = "Unlocked"
          /\ out = data
    /\ At(ThreadA, "into_inner", "failed") =>
          /\ state \in {"Locked", "Poisoned"}
          /\ out = NoVal
    /\ out # NoVal => At(ThreadA, "into_inner", "returned")

\* into_inner() has returned the value a swap() stored, with the native
\* mutex built by an earlier get().
C11_Witness ==
    /\ At(ThreadA, "into_inner", "returned")
    /\ out = MaxVal /\ swapped = MaxVal
    /\ state = "Unlocked"

\* --------------------------------------------------------------------- C12
\* C12 (as claimed): a swap(new_value) on an Unlocked container ends with
\* the stored value new_value, the state Unlocked and the blocking primitive
\* Uninitialized, whatever the primitive was before; the next get() does
\* not fail and its guard reads new_value; and after that guard is dropped
\* the state is Unlocked again.
C12_SwapResets ==
    /\ At(ThreadA, "swap", "done") =>
          /\ state = "Unlocked"
          /\ data = swapped
          /\ useLocks => lockState = "Uninitialized"
    /\ (swapped # NoVal /\ guards[ThreadA] = 0 /\ op[ThreadA] = "get") =>
          pc[ThreadA] \notin {"none", "panic"}
    /\ (swapped # NoVal /\ At(ThreadA, "get", "some")) => data = swapped
    /\ (swapped # NoVal /\ At(ThreadA, "drop", "done")) => state = "Unlocked"

\* --------------------------------------------------------------------- C13
\* C13: clone() on an Unlocked container returns a new container with the
\* state Unlocked, an Uninitialized primitive and the original's value, and
\* leaves the original as it was; clone() on a Locked or Poisoned container
\* fails fatally and returns nothing.  From then on no call on one of the
\* two containers (get, write through a guard, drop, swap) changes the
\* value, the state or the primitive of the other.
C13_CloneIndependent ==
    [][/\ (Idle(ThreadA) /\ op'[ThreadA] = "clone") =>
             /\ IF state = "Unlocked"
                THEN pc'[ThreadA] = "done" /\ cl' = NewContainer(data)
                ELSE pc'[ThreadA] = "panic" /\ cl' = cl
             /\ UNCHANGED <<state, data, lockState, native>>
       /\ (cl.made /\ cl' # cl) =>
             UNCHANGED <<state, data, lockState, native>>
       /\ (cl.made /\ <<state, data, lockState, native>>' #
                      <<state, data, lockState, native>>) =>
             cl' = cl]_vars

\* Both containers have been used since the clone was made: the clone is
\* Locked under a guard through which another value was written, while the
\* original, swapped and acquired again since, holds its own value.
C13_Witness ==
    /\ cl.made /\ cl.guards = 1 /\ cl.state = "Locked"
    /\ cl.data # data
    /\ swapped = data
    /\ At(ThreadA, "get", "some")

\* --------------------------------------------------------------------- C14
\* C14: without the blocking primitive, get() does not look at the state
\* cell again after its read: a get() that read Unlocked writes Locked and
\* returns a guard whatever the other threads did in between.  So there is
\* an interleaving of two concurrent get() calls on an Unlocked container in
\* which both return a guard (C14_Witness).
C14_RacingGet ==
    [][\A t \in Threads :
          (At(t, "get", "set_locked") /\ pc'[t] # pc[t]) =>
              /\ pc'[t] = "some"
              /\ guards'[t] = guards[t] + 1
              /\ state' = "Locked"]_vars

\* Two get() calls, neither returned to its caller yet, have both produced
\* a guard, and these are the only guards: two guards are alive.
C14_Witness ==
    /\ ~useLocks
    /\ \A t \in Threads : At(t, "get", "some") /\ guards[t] = 1
    /\ TotalGuards = 2

\* --------------------------------------------------------------------- C15
\* C15: without the blocking primitive the state Poisoned is unreachable:
\* under get, guard drops (normal or during a panic), swap and clone, by any
\* number of threads, the state of the container and of its clone stays
\* Unlocked or Locked, and a guard dropped during a panic leaves the state
\* Unlocked and is done with that.
C15_NeverPoisoned ==
    [][/\ state' \in {"Unlocked", "Locked"}
       /\ cl'.state \in {"Unlocked", "Locked"}
       /\ \A t \in Threads :
             (Idle(t) /\ op'[t] = "pdrop") =>
                 /\ state' = "Unlocked"
                 /\ pc'[t] = "done"]_vars

\* With std: a guard of the container has been dropped during a panic, a
\* clone exists, and both states are Unlocked.
C15_Witness ==
    /\ ~useLocks /\ useStd
    /\ \E t \in Threads : At(t, "pdrop", "done")
    /\ state = "Unlocked"
    /\ cl.made /\ cl.state = "Unlocked" /\ cl.lockState = "Uninitialized"

\* --------------------------------------------------------------------- C16
\* C16 (as claimed): with use-locks, in every reachable state under any
\* interleaving, whenever a guard is alive (returned and not yet begun
\* dropping) the state is Locked, and so whenever the state is Unlocked no
\* guard is alive; hence no swap() gets past its state check while a guard
\* is alive.
C16_StateGuardAgreement ==
    /\ TotalGuards > 0 => state = "Locked"
    /\ \A t \in Threads : At(t, "swap", "write_data") => TotalGuards = 0

\* --------------------------------------------------------------------- C17
\* C17 (as claimed): with use-locks and std, once the state is Poisoned it
\* stays Poisoned until a swap() writes Unlocked: no step of a get(), of a
\* wait() or of a guard drop changes it to Unlocked or Locked.
C17_PoisonedSticks ==
    [][(useStd /\ state = "Poisoned" /\ state' # "Poisoned") =>
          \E t \in Threads : At(t, "swap", "set_unlocked") /\ pc'[t] # pc[t]]_vars

\* --------------------------------------------------------------------- C18
\* C18 (as claimed): whenever a wait() that has acquired the native lock
\* reads the state cell for its assert, the state is Unlocked or Poisoned,
\* never Locked.
C18_WaitReadsReleased ==
    [][\A t \in Threads :
          (At(t, "wait", "assert") /\ pc'[t] # pc[t]) =>
              state \in {"Unlocked", "Poisoned"}]_vars

\* --------------------------------------------------------------------- C19
\* C19 (as claimed), POSIX form with use-locks: the primitive becomes
\* Initialized only inside Lock::lock() or Lock::unlock(), and every native
\* mutex created by Lock::init() gets pthread_mutex_destroy exactly once,
\* at reset() or when the container is dropped: none is discarded without
\* it, and the mutex a dropped container still holds has been destroyed.
C19_LockLifecycle ==
    [][(useLocks /\ posix) =>
          /\ (lockState = "Uninitialized" /\ lockState' = "Initialized") =>
                \E t \in Threads : pc[t] \in {"lock_init", "unlock_init"}
          /\ ~lost'
          /\ destroyed' <=>
                /\ op'[ThreadA] \in {"into_inner", "drop_container"}
                /\ lockState' = "Initialized"]_vars

\* --------------------------------------------------------------------- C20
\* C20 (as claimed): with use-locks, in every state with no guard alive and
\* no get(), wait() or guard drop in progress the blocking primitive is not
\* held (it is Uninitialized or free), also after a wait() that failed
\* fatally; and Lock::unlock() never runs on a primitive that is
\* Uninitialized or not held.
C20_LockBalance ==
    useLocks =>
        /\ (/\ guards[ThreadA] = 0
            /\ op[ThreadA] \in {"get", "wait", "drop", "pdrop"} =>
                  pc[ThreadA] \in Finished) =>
              (lockState = "Uninitialized" \/ native = "free")
        /\ pc[ThreadA] # "unlock_init"
        /\ pc[ThreadA] = "unlock_native" => native = "held"

====
